---- MODULE Spec2Model ----
(***************************************************************************)
(* A model of moo/schema.py: the type variants, the Namespace registry,    *)
(* the to_dict / from_dict wire form, graph() and toposort().              *)
(*                                                                         *)
(* A Python str is a sequence of one-character strings, so that split(".") *)
(* and ".".join() are computed and not assumed to be inverse.  Characters   *)
(* other than "." are only ever compared a whole segment at a time, so a   *)
(* run of them is written as one symbol: "top.base" is <<"top", ".",       *)
(* "base">>.  Objects live in a heap (objs) and are named by their index,  *)
(* so that two references to one object, or to its path list, see each     *)
(* other's changes.                                                        *)
(***************************************************************************)
EXTENDS Integers, Sequences, FiniteSets, TLC

VARIABLES
    \* toposort(graph): the argument and the locals of one call
    graph,      \* mapping fqn -> type            (schema.py:294)
    nodes,      \* list(graph.keys()), then the driver's remainder (schema.py:304,323)
    marks,      \* dict node -> "temp" | "perm"   (schema.py:303)
    ret,        \* the list being built           (schema.py:302)
    stack,      \* the activations of visit(), innermost last
    pc,         \* where the call is
    err,        \* the exception that ended the call, or "none"
    result,     \* what the call returned, or NoResult
    \* the objects of a program that builds types and namespaces
    objs,       \* the heap: objs[i] is the object named i
    d,          \* the dictionary a to_dict() call returned and the program holds
    got,        \* what the last from_dict() call returned
    last        \* the last call made on a namespace, with what it returned

topoVars == <<graph, nodes, marks, ret, stack, pc, err, result>>
heapVars == <<objs, d, got, last>>

vars == <<graph, nodes, marks, ret, stack, pc, err, result, objs, d, got, last>>

-----------------------------------------------------------------------------
(* Bounds of the model *)

\* the longest field list of a Record
MaxFields == 2
\* the longest path of a type built outside a namespace tree
MaxPath == 2
\* the most objects a program builds in one namespace tree, the root included
MaxObjs == 4
\* the most segments of a key looked up in a namespace
MaxKeySegs == 2
\* the most dependency entries (Sequence.items and Record fields) in one graph
MaxDeps == 3

-----------------------------------------------------------------------------
(* Strings *)

Dot == "."

RECURSIVE Join(_)
\* ".".join(segs)
Join(segs) ==
    IF segs = <<>> THEN <<>>
    ELSE IF Len(segs) = 1 THEN segs[1]
    ELSE segs[1] \o <<Dot>> \o Join(Tail(segs))

RECURSIVE Split(_)
\* s.split("."): never empty, "".split(".") is [""]
Split(s) ==
    IF \A i \in 1..Len(s) : s[i] # Dot THEN <<s>>
    ELSE LET k == CHOOSE i \in 1..Len(s) :
                      s[i] = Dot /\ \A j \in 1..(i-1) : s[j] # Dot
         IN  <<SubSeq(s, 1, k-1)>> \o Split(SubSeq(s, k+1, Len(s)))

\* s.startswith(p)
StartsWith(s, p) == Len(s) >= Len(p) /\ SubSeq(s, 1, Len(p)) = p

-----------------------------------------------------------------------------
(* Type variants, as far as toposort reads them *)

\* Sequence.deps
SequenceDeps(t) == <<t.items>>

\* Record.deps
RecordDeps(t) == [i \in 1..Len(t.fields) |-> t.fields[i].item]

\* the classes that define a deps property; Boolean, Number and String do not
HasDeps(t) == t.schema \in {"sequence", "record"}

\* t.deps, where the class defines it
Deps(t) == IF t.schema = "sequence" THEN SequenceDeps(t) ELSE RecordDeps(t)

-----------------------------------------------------------------------------
(* toposort(graph) *)

\* the fqns the graphs of the model are keyed by, and one fqn that is never a key
Keys == {<<"A">>, <<"B">>, <<"C">>}
Absent == <<"X">>
Fqns == Keys \cup {Absent}

FieldNames == <<<<"f">>, <<"g">>, <<"h">>, <<"i">>>>

LeafTypes == {[schema |-> s] : s \in {"boolean", "number", "string"}}
SequenceTypes == {[schema |-> "sequence", items |-> f] : f \in Fqns}
RecordsOf(n) ==
    {[schema |-> "record",
      fields |-> [i \in 1..n |-> [name |-> FieldNames[i], item |-> its[i]]]] :
        its \in [1..n -> Fqns]}
RecordTypes == UNION {RecordsOf(n) : n \in 0..MaxFields}
Types == LeafTypes \cup SequenceTypes \cup RecordTypes

\* how many dependency entries a type holds
DepCount(t) == IF HasDeps(t) THEN Len(Deps(t)) ELSE 0

RECURSIVE SumOver(_, _)
SumOver(f, S) ==
    IF S = {} THEN 0
    ELSE LET x == CHOOSE y \in S : TRUE IN f[x] + SumOver(f, S \ {x})

\* the graphs of the model: every key holds a type of any variant
Graphs ==
    {g \in [Keys -> Types] :
        SumOver([k \in Keys |-> DepCount(g[k])], Keys) <= MaxDeps}

\* the orders in which graph.keys() may yield the keys
Orders(S) ==
    {o \in [1..Cardinality(S) -> S] : \A i, j \in 1..Cardinality(S) : i # j => o[i] # o[j]}

\* the scenario of test(): top.base holds Count and Email, top.app.sub holds
\* Counts and Person
Count == <<"top", Dot, "base", Dot, "Count">>
Email == <<"top", Dot, "base", Dot, "Email">>
Counts == <<"top", Dot, "app", Dot, "sub", Dot, "Counts">>
Person == <<"top", Dot, "app", Dot, "sub", Dot, "Person">>
ScenarioGraph ==
    [k \in {Count, Email, Counts, Person} |->
        IF k = Count THEN [schema |-> "number"]
        ELSE IF k = Email THEN [schema |-> "string"]
        ELSE IF k = Counts THEN [schema |-> "sequence", items |-> Count]
        ELSE [schema |-> "record",
              fields |-> <<[name |-> <<"email">>, item |-> Email],
                           [name |-> <<"counts">>, item |-> Counts]>>]]

NoResult == "NoResult"
\* a variable that holds nothing (yet)
NoValue == [nothing |-> TRUE]
\* no call made yet, or none whose return value the program kept
NoCall == [op |-> "none"]

\* marks.get(node, None)
MarksGet(m, node) == IF node \in DOMAIN m THEN m[node] ELSE "None"

\* marks[node] = v
MarksSet(m, node, v) == [x \in DOMAIN m \cup {node} |-> IF x = node THEN v ELSE m[x]]

\* [n for n in nodes if n not in marks]
Unmarked(ns, m) == SelectSeq(ns, LAMBDA n : n \notin DOMAIN m)

\* a visit that returns at any mark
IsMarked(mark) == mark \in {"perm", "temp"}

\* if mark == "perm": return
IsDone(mark) == mark = "perm"

\* if mark == "temp": raise ValueError
IsInProgress(mark) == mark = "temp"

\* graph[node]: the type, or the KeyError of a key that is absent
KeyError == [schema |-> "KeyError"]
\* graph.get(node, a type without dependencies)
GraphGetOrEmpty(g, node) ==
    IF node \in DOMAIN g THEN g[node] ELSE [schema |-> "record", fields |-> <<>>]
GraphGet(g, node) == IF node \in DOMAIN g THEN g[node] ELSE KeyError

Top == stack[Len(stack)]

Frame(node) == [node |-> node, deps |-> <<>>, i |-> 0]

TopoInit ==
    /\ graph \in Graphs \cup {ScenarioGraph}
    /\ nodes \in Orders(DOMAIN graph)
    /\ marks = <<>>
    /\ ret = <<>>
    /\ stack = <<>>
    /\ pc = "loop"
    /\ err = "none"
    /\ result = NoResult
    /\ objs = <<>>
    /\ d = NoValue
    /\ got = NoValue
    /\ last = NoCall

\* an exception leaves toposort: nothing is returned
Raise(e) ==
    /\ err' = e
    /\ pc' = "raised"
    /\ UNCHANGED <<graph, nodes, ret, stack, result>>
    /\ UNCHANGED heapVars

\* visit() returns to its caller: the loop over deps, or the driver (line 323)
Leave(m) ==
    /\ stack' = SubSeq(stack, 1, Len(stack) - 1)
    /\ IF Len(stack) = 1
         THEN pc' = "loop" /\ nodes' = Unmarked(nodes, m)
         ELSE pc' = "deps" /\ nodes' = nodes

\* while nodes: n = nodes.pop(0); visit(n)
DriverPop ==
    /\ pc = "loop"
    /\ nodes # <<>>
    /\ nodes' = Tail(nodes)
    /\ stack' = <<Frame(Head(nodes))>>
    /\ pc' = "visit"
    /\ UNCHANGED <<graph, marks, ret, err, result>>
    /\ UNCHANGED heapVars

\* return ret
DriverReturn ==
    /\ pc = "loop"
    /\ nodes = <<>>
    /\ result' = ret
    /\ pc' = "returned"
    /\ UNCHANGED <<graph, nodes, marks, ret, stack, err>>
    /\ UNCHANGED heapVars

\* visit(node) of a node marked "perm"
VisitDone ==
    /\ pc = "visit"
    /\ IsDone(MarksGet(marks, Top.node))
    /\ Leave(marks)
    /\ UNCHANGED <<graph, marks, ret, err, result>>
    /\ UNCHANGED heapVars

\* visit(node) of a node marked "temp"
VisitCycle ==
    /\ pc = "visit"
    /\ ~IsDone(MarksGet(marks, Top.node))
    /\ IsInProgress(MarksGet(marks, Top.node))
    /\ Raise("ValueError")
    /\ UNCHANGED marks

\* visit(node) of an unmarked node that is no key: graph[node] raises
VisitAbsent ==
    /\ pc = "visit"
    /\ ~IsDone(MarksGet(marks, Top.node))
    /\ ~IsInProgress(MarksGet(marks, Top.node))
    /\ GraphGet(graph, Top.node) = KeyError
    /\ marks' = MarksSet(marks, Top.node, "temp")
    /\ Raise("KeyError")

\* visit(node) of an unmarked node whose class has no deps: .deps raises
VisitNoDeps ==
    /\ pc = "visit"
    /\ ~IsDone(MarksGet(marks, Top.node))
    /\ ~IsInProgress(MarksGet(marks, Top.node))
    /\ GraphGet(graph, Top.node) # KeyError
    /\ ~HasDeps(GraphGet(graph, Top.node))
    /\ marks' = MarksSet(marks, Top.node, "temp")
    /\ Raise("AttributeError")

\* visit(node) of an unmarked node: mark it and start on its deps
VisitEnter ==
    /\ pc = "visit"
    /\ ~IsDone(MarksGet(marks, Top.node))
    /\ ~IsInProgress(MarksGet(marks, Top.node))
    /\ GraphGet(graph, Top.node) # KeyError
    /\ HasDeps(GraphGet(graph, Top.node))
    /\ marks' = MarksSet(marks, Top.node, "temp")
    /\ stack' = [stack EXCEPT ![Len(stack)] =
                    [node |-> Top.node, deps |-> Deps(GraphGet(graph, Top.node)), i |-> 1]]
    /\ pc' = "deps"
    /\ UNCHANGED <<graph, nodes, ret, err, result>>
    /\ UNCHANGED heapVars

\* for dep in ...: visit(dep)
VisitDep ==
    /\ pc = "deps"
    /\ Top.i <= Len(Top.deps)
    /\ stack' = Append([stack EXCEPT ![Len(stack)].i = @ + 1], Frame(Top.deps[Top.i]))
    /\ pc' = "visit"
    /\ UNCHANGED <<graph, nodes, marks, ret, err, result>>
    /\ UNCHANGED heapVars

\* marks[node] = "perm"; ret.append(node)
VisitFinish ==
    /\ pc = "deps"
    /\ Top.i > Len(Top.deps)
    /\ marks' = MarksSet(marks, Top.node, "perm")
    /\ ret' = Append(ret, Top.node)
    /\ Leave(marks')
    /\ UNCHANGED <<graph, err, result>>
    /\ UNCHANGED heapVars

TopoNext ==
    \/ DriverPop
    \/ DriverReturn
    \/ VisitDone
    \/ VisitCycle
    \/ VisitAbsent
    \/ VisitNoDeps
    \/ VisitEnter
    \/ VisitDep
    \/ VisitFinish

SpecTopo == TopoInit /\ [][TopoNext]_vars

-----------------------------------------------------------------------------
(* Properties of toposort *)

Range(q) == {q[i] : i \in 1..Len(q)}

\* the fqns a key depends on
DepsOf(g, k) == IF k \in DOMAIN g /\ HasDeps(g[k]) THEN Range(Deps(g[k])) ELSE {}

RECURSIVE Closure(_, _)
Closure(g, S) ==
    LET N == S \cup UNION {DepsOf(g, k) : k \in S}
    IN  IF N = S THEN S ELSE Closure(g, N)

\* every dependency is a key
Closed(g) == \A k \in DOMAIN g : DepsOf(g, k) \subseteq DOMAIN g
\* some dependency is no key
HasAbsent(g) == ~Closed(g)
\* some key depends on itself, directly or through other keys
HasCycle(g) == \E k \in DOMAIN g : k \in Closure(g, DepsOf(g, k))
\* some key holds a Boolean, a Number or a String
HasLeaf(g) == \E k \in DOMAIN g : ~HasDeps(g[k])

Ended == pc \in {"returned", "raised"}

\* r lists every key of g once, each after all its dependencies
IsOrder(r, g) ==
    /\ Len(r) = Cardinality(DOMAIN g)
    /\ Range(r) = DOMAIN g
    /\ \A i \in 1..Len(r) : \A dep \in DepsOf(g, r[i]) : \E j \in 1..(i-1) : r[j] = dep

Before(r, a, b) == \E i, j \in 1..Len(r) : i < j /\ r[i] = a /\ r[j] = b

\* C1: on a graph whose dependencies are all keys and acyclic, toposort
\* returns every key exactly once, each dependency before its dependent.
C1_OrdersEveryDag ==
    (Ended /\ Closed(graph) /\ ~HasCycle(graph)) =>
        (pc = "returned" /\ IsOrder(result, graph))

\* C2, as stated: on a graph with a cycle, toposort fails with the
\* ValueError of a revisited in-progress node and returns nothing.  (Taken
\* on the graphs whose types all have a deps property, where the missing
\* deps of the leaf types, C3, plays no part.)
C2_CycleAlwaysDetected ==
    (Ended /\ HasCycle(graph) /\ ~HasLeaf(graph)) =>
        (pc = "raised" /\ err = "ValueError" /\ result = NoResult)

\* C2, amended: on a graph with a cycle, toposort returns nothing; it fails,
\* with ValueError exactly at a visit of a node marked "temp", and with
\* ValueError whenever no dependency is absent and no key holds a leaf type.
C2_CycleNeverOrdered ==
    /\ (Ended /\ HasCycle(graph)) =>
          /\ pc = "raised"
          /\ result = NoResult
          /\ err \in {"ValueError", "KeyError", "AttributeError"}
          /\ (Closed(graph) /\ ~HasLeaf(graph)) => err = "ValueError"
    /\ err = "ValueError" =>
          /\ HasCycle(graph)
          /\ MarksGet(marks, Top.node) = "temp"
          /\ Top.i = 0

\* a cycle through three keys is walked round and detected
C2_Witness ==
    /\ pc = "raised"
    /\ err = "ValueError"
    /\ Len(stack) = 4
    /\ stack[1].node = stack[4].node
    /\ Cardinality({stack[i].node : i \in 1..3}) = 3

\* C3: on the scenario graph, with its Number and String leaves, toposort
\* returns an order with Count and Email before Counts and Person, and
\* Counts before Person.
C3_ScenarioOrdered ==
    (graph = ScenarioGraph /\ Ended) =>
        /\ pc = "returned"
        /\ Before(result, Count, Counts) /\ Before(result, Count, Person)
        /\ Before(result, Email, Counts) /\ Before(result, Email, Person)
        /\ Before(result, Counts, Person)

\* C4, as stated: on a graph with a dependency that is no key, toposort
\* fails with the KeyError of the absent fqn and returns nothing.  (Taken
\* on the graphs whose types all have a deps property, where the missing
\* deps of the leaf types, C3, plays no part.)
C4_AbsentAlwaysReported ==
    (Ended /\ HasAbsent(graph) /\ ~HasLeaf(graph)) =>
        (pc = "raised" /\ err = "KeyError" /\ result = NoResult)

\* C4, amended: on a graph with a dependency that is no key, toposort
\* returns nothing; it fails, with KeyError exactly at the visit of an fqn
\* that is no key, and with KeyError whenever the graph has no cycle and no
\* leaf type.  No returned list holds an fqn that is no key.
C4_AbsentNeverOrdered ==
    /\ (Ended /\ HasAbsent(graph)) =>
          /\ pc = "raised"
          /\ result = NoResult
          /\ err \in {"ValueError", "KeyError", "AttributeError"}
          /\ (~HasCycle(graph) /\ ~HasLeaf(graph)) => err = "KeyError"
    /\ err = "KeyError" => Top.node \notin DOMAIN graph
    /\ result # NoResult => Range(result) \subseteq DOMAIN graph

\* an absent fqn is reached through a chain of two dependencies
C4_Witness ==
    /\ pc = "raised"
    /\ err = "KeyError"
    /\ Len(stack) = 3
    /\ Top.node = Absent

-----------------------------------------------------------------------------
(* Python values held in dictionaries and in attributes that take any value *)

StrV(x) == [str |-> x]
NoneV == [none |-> TRUE]
\* the list that is objs[i].path: the very object, not a copy
ListOf(i) == [pathOf |-> i]
ListV(q) == [list |-> q]
DictV(od) == [dict |-> od]
ErrorV(e) == [error |-> e]

IsStr(v) == "str" \in DOMAIN v
IsDict(v) == "dict" \in DOMAIN v
IsListOf(v) == "pathOf" \in DOMAIN v
IsError(v) == "error" \in DOMAIN v

\* str(v) of a string or of None
PyStr(v) == IF IsStr(v) THEN v.str ELSE <<"None">>

(* A dict keeps its keys in insertion order: a sequence of entries [k, v] *)

Has(od, key) == \E i \in 1..Len(od) : od[i].k = key
Get(od, key) == od[CHOOSE i \in 1..Len(od) : od[i].k = key].v
\* od[key] = v: a key already there keeps its place
Put(od, key, v) ==
    IF Has(od, key)
    THEN [i \in 1..Len(od) |-> IF od[i].k = key THEN [k |-> key, v |-> v] ELSE od[i]]
    ELSE Append(od, [k |-> key, v |-> v])
\* od.pop(key, default), for what it leaves behind
Del(od, key) == SelectSeq(od, LAMBDA e : e.k # key)
KeysOf(od) == [i \in 1..Len(od) |-> od[i].k]

NameKey == <<"name">>
SchemaKey == <<"schema">>
PathKey == <<"path">>
DocKey == <<"doc">>
DepsKey == <<"deps">>
DtypeKey == <<"dtype">>
PatternKey == <<"pattern">>
FormatKey == <<"format">>
ItemsKey == <<"items">>
FieldsKey == <<"fields">>
ItemKey == <<"item">>

-----------------------------------------------------------------------------
(* The classes *)

Boolean(name, doc, path) ==
    [schema |-> "boolean", name |-> name, doc |-> doc, path |-> path]

Number(name, dtype, doc, path) ==
    [schema |-> "number", name |-> name, doc |-> doc, path |-> path, dtype |-> dtype]

String(name, pattern, format, doc, path) ==
    [schema |-> "string", name |-> name, doc |-> doc, path |-> path,
     pattern |-> pattern, format |-> format]

Sequence(name, items, doc, path) ==
    [schema |-> "sequence", name |-> name, doc |-> doc, path |-> path,
     items |-> PyStr(items)]

Field(name, item, default, doc) ==
    [name |-> name, item |-> PyStr(item), default |-> default, doc |-> doc]

Record(name, fields, doc, path) ==
    [schema |-> "record", name |-> name, doc |-> doc, path |-> path, fields |-> fields]

\* Namespace.__init__: all but the last segment of a dotted name go to the path
Namespace(name, path, doc, parts) ==
    LET n == Split(name)
    IN  [schema |-> "namespace", name |-> n[Len(n)],
         path |-> path \o SubSeq(n, 1, Len(n) - 1), doc |-> doc, parts |-> parts]

\* BaseType.__str__
Str(o) == Join(o.path \o <<o.name>>)

KnownTypes == {"boolean", "number", "string", "record", "sequence", "namespace"}

-----------------------------------------------------------------------------
(* to_dict *)

\* BaseType.to_dict: the path entry is the object's own list
BaseToDict(os, i) ==
    << [k |-> NameKey, v |-> StrV(os[i].name)],
       [k |-> SchemaKey, v |-> StrV(<<os[i].schema>>)],
       [k |-> PathKey, v |-> ListOf(i)],
       [k |-> DocKey, v |-> os[i].doc] >>

\* Record.to_dict's list of fields: name and item only
FieldDicts(fields) ==
    [j \in 1..Len(fields) |->
        DictV(<< [k |-> NameKey, v |-> StrV(fields[j].name)],
                 [k |-> ItemKey, v |-> StrV(fields[j].item)] >>)]

RECURSIVE ToDict(_, _)
RECURSIVE PutParts(_, _, _, _)

\* Namespace.to_dict's loop: d[t.name] = t.to_dict()
PutParts(os, od, parts, j) ==
    IF j > Len(parts) THEN od
    ELSE PutParts(os, Put(od, os[parts[j].v].name, DictV(ToDict(os, parts[j].v))),
                  parts, j + 1)

\* o.to_dict() of the object named i
ToDict(os, i) ==
    LET o == os[i]
        base == BaseToDict(os, i)
    IN  CASE o.schema = "boolean" -> base
          [] o.schema = "number" -> Put(base, DtypeKey, o.dtype)
          [] o.schema = "string" ->
                Put(Put(base, PatternKey, o.pattern), FormatKey, o.format)
          [] o.schema = "sequence" -> Put(base, ItemsKey, StrV(o.items))
          [] o.schema = "record" -> Put(base, FieldsKey, ListV(FieldDicts(o.fields)))
          [] o.schema = "namespace" -> PutParts(os, base, o.parts, 1)

-----------------------------------------------------------------------------
(* from_dict: returns [ret, objs], the value returned (or the exception   *)
(* raised) and the heap as the call leaves it                             *)

Front(q) == SubSeq(q, 1, Len(q) - 1)
Last(q) == q[Len(q)]

\* path.pop(-1) on the list that is os[i].path
PopPath(os, i) == [os EXCEPT ![i].path = Front(@)]

\* [Field(**f) for f in fields]
FieldsOf(fds) ==
    [j \in 1..Len(fds) |->
        Field(Get(fds[j].dict, NameKey).str, Get(fds[j].dict, ItemKey), NoneV, StrV(<<>>))]

\* meth(name, **d): the constructor of the class, with the namespace's path
MakeType(schema, name, od, path) ==
    LET doc == IF Has(od, DocKey) THEN Get(od, DocKey) ELSE StrV(<<>>)
    IN  CASE schema = "boolean" -> Boolean(name, doc, path)
          [] schema = "number" -> Number(name, Get(od, DtypeKey), doc, path)
          [] schema = "string" ->
                String(name, Get(od, PatternKey), Get(od, FormatKey), doc, path)
          [] schema = "sequence" -> Sequence(name, Get(od, ItemsKey), doc, path)
          [] schema = "record" ->
                Record(name,
                       IF Has(od, FieldsKey) THEN FieldsOf(Get(od, FieldsKey).list)
                       ELSE <<>>,
                       doc, path)

\* the branch of from_dict that builds a type in a throwaway namespace
FromDictType(schema, name, path, od, os) ==
    IF IsDict(path) /\ path.dict # <<>>
    THEN [ret |-> ErrorV("KeyError"), objs |-> os]            \* dict.pop(-1)
    ELSE
    LET full == IF IsListOf(path) THEN os[path.pathOf].path ELSE <<>>
        os1 == IF full # <<>> THEN PopPath(os, path.pathOf) ELSE os
        ns == IF full # <<>>
              THEN Namespace(Last(full), Front(full), StrV(<<>>), <<>>)
              ELSE Namespace(<<>>, <<>>, StrV(<<>>), <<>>)
    IN  IF ~IsStr(schema)
        THEN [ret |-> ErrorV("TypeError"), objs |-> os1]      \* getattr(ns, a dict)
        ELSE IF Len(schema.str) # 1 \/ schema.str[1] \notin KnownTypes
        THEN [ret |-> ErrorV("KeyError"), objs |-> os1]       \* ns.parts[schema]
        ELSE [ret |-> MakeType(schema.str[1], name.str, od, ns.path \o <<ns.name>>),
              objs |-> os1]

RECURSIVE FromDict(_, _)
RECURSIVE FromParts(_, _, _, _)

\* for n, p in d.items(): parts[n] = from_dict(p)
FromParts(rest, j, acc, os) ==
    IF j > Len(rest) THEN [ret |-> DictV(acc), objs |-> os]
    ELSE LET r == IF IsDict(rest[j].v) THEN FromDict(rest[j].v.dict, os)
                  ELSE [ret |-> ErrorV("TypeError"), objs |-> os]
         IN  IF IsError(r.ret) THEN r
             ELSE FromParts(rest, j + 1, Put(acc, rest[j].k, r.ret), r.objs)

\* the branch of from_dict that builds a Namespace
FromDictNamespace(name, path, od, os) ==
    LET doc == IF Has(od, DocKey) THEN Get(od, DocKey) ELSE StrV(<<>>)
        kids == FromParts(Del(od, DocKey), 1, <<>>, os)
    IN  IF IsError(kids.ret) THEN kids
        ELSE IF ~IsStr(name)
        THEN [ret |-> ErrorV("AttributeError"), objs |-> kids.objs]   \* name.split
        ELSE [ret |-> Namespace(name.str,
                                IF IsListOf(path) THEN kids.objs[path.pathOf].path
                                ELSE KeysOf(path.dict),               \* list(path)
                                doc, kids.ret.dict),
              objs |-> kids.objs]

\* from_dict(d)
FromDict(d0, os) ==
    LET schema == Get(d0, SchemaKey)
        name == Get(d0, NameKey)
        path == Get(d0, PathKey)
        od == Del(Del(Del(Del(d0, SchemaKey), DepsKey), NameKey), PathKey)
    IN  IF schema = StrV(<<"namespace">>)
        THEN FromDictNamespace(name, path, od, os)
        ELSE FromDictType(schema, name, path, od, os)

-----------------------------------------------------------------------------
(* graph(types) *)

RECURSIVE GraphLoop(_, _, _, _)
\* for t in types: ret['.'.join(t.path + [t.name])] = t
GraphLoop(os, types, j, acc) ==
    IF j > Len(types) THEN acc
    ELSE GraphLoop(os, types, j + 1,
                   Put(acc, Join(os[types[j]].path \o <<os[types[j]].name>>), types[j]))

\* graph(types), types a list of object names
Graph(os, types) == GraphLoop(os, types, 1, <<>>)

-----------------------------------------------------------------------------
(* A program that builds one type, serializes it and reads it back *)

Segments == {<<"a">>, <<"b">>}
Paths == UNION {[1..n -> Segments] : n \in 0..MaxPath}
TypeNames == {<<"T">>}
Docs == {StrV(<<>>), StrV(<<"about">>)}
Dtypes == {StrV(<<"i4">>), StrV(<<"f8">>)}
Patterns == {NoneV, StrV(<<"^x$">>)}
Formats == {NoneV, StrV(<<"email">>)}
ItemFqns == {StrV(<<"a", Dot, "U">>), StrV(<<"V">>)}
\* a field is given a default and a doc, or neither
Defaults == {[default |-> NoneV, doc |-> StrV(<<>>)],
             [default |-> StrV(<<"0">>), doc |-> StrV(<<"about">>)]}
Fields ==
    {Field(n, i, df.default, df.doc) :
        n \in {<<"f">>, <<"g">>}, i \in ItemFqns, df \in Defaults}
FieldLists == UNION {[1..n -> Fields] : n \in 0..MaxFields}

\* the types a program can build, with any path (a namespace's, or one given)
TypesAt(dc, p) ==
    {Boolean(n, dc, p) : n \in TypeNames}
    \cup {Number(n, dt, dc, p) : n \in TypeNames, dt \in Dtypes}
    \cup {String(n, pt, ft, dc, p) : n \in TypeNames, pt \in Patterns, ft \in Formats}
    \cup {Sequence(n, i, dc, p) : n \in TypeNames, i \in ItemFqns}
    \cup {Record(n, fs, dc, p) : n \in TypeNames, fs \in FieldLists}

DictInit ==
    /\ \E dc \in Docs, p \in Paths : objs \in {<<t>> : t \in TypesAt(dc, p)}
    /\ d = NoValue
    /\ got = NoValue
    /\ last = NoCall
    /\ graph = <<>> /\ nodes = <<>> /\ marks = <<>> /\ ret = <<>> /\ stack = <<>>
    /\ pc = "idle" /\ err = "none" /\ result = NoResult

\* d = T.to_dict()
ToDictCall ==
    /\ d' = DictV(ToDict(objs, 1))
    /\ UNCHANGED <<objs, got, last>>
    /\ UNCHANGED topoVars

\* got = from_dict(d)
FromDictCall ==
    /\ d # NoValue
    /\ LET r == FromDict(d.dict, objs)
       IN  got' = r.ret /\ objs' = r.objs
    /\ UNCHANGED <<d, last>>
    /\ UNCHANGED topoVars

DictNext ==
    \/ ToDictCall
    \/ FromDictCall

SpecDict == DictInit /\ [][DictNext]_vars

-----------------------------------------------------------------------------
(* Namespace *)

ObjV(i) == [obj |-> i]

\* Namespace.normalize, of a dotted string
Normalize(o, key) ==
    LET prefix == Str(o) \o <<Dot>>
    IN  IF StartsWith(key, prefix) THEN SubSeq(key, Len(prefix) + 1, Len(key)) ELSE key

RECURSIVE GetItem(_, _, _)
\* Namespace.__getitem__ on the namespace named i
GetItem(os, i, key) ==
    LET path == Split(Normalize(os[i], key))
    IN  IF ~Has(os[i].parts, Head(path)) THEN ErrorV("KeyError")
        ELSE LET member == Get(os[i].parts, Head(path))
             IN  IF Tail(path) = <<>> THEN ObjV(member)
                 ELSE IF os[member].schema = "namespace"
                      THEN GetItem(os, member, Join(Tail(path)))
                      ELSE ErrorV("TypeError")          \* not subscriptable

\* the object a factory of the namespace named i builds
NewObject(os, i, kind, name) ==
    LET path == os[i].path \o <<os[i].name>>
        doc == StrV(<<>>)
    IN  CASE kind = "namespace" -> Namespace(name, path, doc, <<>>)
          [] kind = "boolean" -> Boolean(name, doc, path)
          [] kind = "number" -> Number(name, StrV(<<"i4">>), doc, path)
          [] kind = "string" -> String(name, NoneV, NoneV, doc, path)
          [] kind = "sequence" -> Sequence(name, StrV(<<"V">>), doc, path)
          [] kind = "record" -> Record(name, <<>>, doc, path)

\* Namespace._make: build, file under the name given, return
Make(os, i, kind, name) ==
    [ret |-> ObjV(Len(os) + 1),
     objs |-> Append([os EXCEPT ![i].parts = Put(@, name, Len(os) + 1)],
                     NewObject(os, i, kind, name))]

RECURSIVE Descend(_, _, _)
\* for sp in subpath: ns = ns.namespace(sp)
Descend(os, cur, rest) ==
    IF rest = <<>> THEN [ret |-> ObjV(cur), objs |-> os]
    ELSE IF os[cur].schema = "namespace"
    THEN LET m == Make(os, cur, "namespace", Head(rest))
         IN  Descend(m.objs, m.ret.obj, Tail(rest))
    ELSE IF os[cur].schema = "record"
    THEN [ret |-> ErrorV("KeyError"), objs |-> os]        \* Record.__getattr__
    ELSE [ret |-> ErrorV("AttributeError"), objs |-> os]

\* Namespace.subnamespace on the namespace named i
Subnamespace(os, i, subpath) ==
    LET segs == Split(Normalize(os[i], subpath))
    IN  IF segs = <<>> THEN [ret |-> ObjV(i), objs |-> os]
        ELSE IF Has(os[i].parts, Head(segs))
        THEN Descend(os, Get(os[i].parts, Head(segs)), Tail(segs))
        ELSE Descend(
                Append([os EXCEPT ![i].parts = Put(@, Head(segs), Len(os) + 1)],
                       Namespace(Head(segs), os[i].path \o <<os[i].name>>,
                                 StrV(<<>>), <<>>)),
                Len(os) + 1, Tail(segs))

\* me[:n]
Take(q, n) == SubSeq(q, 1, IF n < Len(q) THEN n ELSE Len(q))

\* Namespace.isin
IsIn(o, typ) ==
    LET me == o.path \o <<o.name>>
        n == Len(typ.path)
    IN  n >= Len(me) /\ typ.path = Take(me, n)

-----------------------------------------------------------------------------
(* A program that builds a namespace tree, queries it, and may end by     *)
(* serializing the tree and reading it back                               *)

Root == 1
RootNames == {<<"a">>, <<"b", Dot, "a">>}
ChildNames == {<<"a">>, <<"b">>, <<"a", Dot, "b">>, DocKey}
LookupSegments == {<<"a">>, <<"b">>}
LookupKeys == {Join(q) : q \in UNION {[1..n -> LookupSegments] : n \in 1..MaxKeySegs}}
SubPaths == LookupKeys

NamespacesOf(os) == {i \in 1..Len(os) : os[i].schema = "namespace"}
TypesOf(os) == {i \in 1..Len(os) : os[i].schema # "namespace"}

\* The program is still building.  __getitem__ and isin change nothing, so a
\* program that goes on building after them reaches no tree that building
\* alone does not reach: the model lets a query, or the round trip through
\* to_dict and from_dict, be the program's last call.
Building == last.op \in {"none", "subnamespace"}

\* the kinds of object the programs of the model build
MadeKinds == {"namespace", "boolean", "record"}

RECURSIVE TreeTags(_, _)
\* the fqn and schema tag of the object named i and of all below it
TreeTags(os, i) ==
    {<<Str(os[i]), os[i].schema>>}
    \cup (IF os[i].schema = "namespace"
          THEN UNION {TreeTags(os, os[i].parts[j].v) : j \in 1..Len(os[i].parts)}
          ELSE {})

NsInit ==
    /\ objs \in {<<Namespace(n, <<>>, StrV(<<>>), <<>>)>> : n \in RootNames}
    /\ d = NoValue
    /\ got = NoValue
    /\ last = NoCall
    /\ graph = <<>> /\ nodes = <<>> /\ marks = <<>> /\ ret = <<>> /\ stack = <<>>
    /\ pc = "idle" /\ err = "none" /\ result = NoResult

\* ns.boolean(name), ns.number(name), ..., ns.namespace(name)
MakeCall(i, kind, name) ==
    /\ Building
    /\ Len(objs) < MaxObjs
    /\ objs' = Make(objs, i, kind, name).objs
    /\ last' = NoCall
    /\ UNCHANGED <<d, got>>
    /\ UNCHANGED topoVars

\* ns.subnamespace(subpath)
SubnamespaceCall(i, subpath) ==
    /\ Building
    /\ Len(Subnamespace(objs, i, subpath).objs) <= MaxObjs
    /\ LET r == Subnamespace(objs, i, subpath)
       IN  /\ objs' = r.objs
           /\ last' = [op |-> "subnamespace", ns |-> i, key |-> subpath, ret |-> r.ret]
    /\ UNCHANGED <<d, got>>
    /\ UNCHANGED topoVars

\* ns[key]
GetItemCall(i, key) ==
    /\ Building
    /\ last' = [op |-> "getitem", ns |-> i, key |-> key, ret |-> GetItem(objs, i, key)]
    /\ UNCHANGED <<objs, d, got>>
    /\ UNCHANGED topoVars

\* ns.isin(typ)
IsInCall(i, t) ==
    /\ Building
    /\ last' = [op |-> "isin", ns |-> i, typ |-> t, ret |-> IsIn(objs[i], objs[t])]
    /\ UNCHANGED <<objs, d, got>>
    /\ UNCHANGED topoVars

\* from_dict(root.to_dict())
RoundTripCall ==
    /\ Building
    /\ LET r == FromDict(ToDict(objs, Root), objs)
       IN  /\ objs' = r.objs
           /\ last' = [op |-> "from_dict", before |-> TreeTags(objs, Root), ret |-> r.ret]
    /\ UNCHANGED <<d, got>>
    /\ UNCHANGED topoVars

NsNext ==
    \/ \E i \in NamespacesOf(objs), kind \in MadeKinds, name \in ChildNames :
            MakeCall(i, kind, name)
    \/ \E i \in NamespacesOf(objs), subpath \in SubPaths : SubnamespaceCall(i, subpath)
    \/ \E i \in NamespacesOf(objs), key \in LookupKeys : GetItemCall(i, key)
    \/ \E i \in NamespacesOf(objs), t \in TypesOf(objs) : IsInCall(i, t)
    \/ RoundTripCall

SpecNs == NsInit /\ [][NsNext]_vars

-----------------------------------------------------------------------------
(* Properties of to_dict and from_dict on one type *)

\* v is an object of t's schema kind with t's name, path, doc and
\* schema-specific fields (of a field, its name and item)
SameType(v, t) ==
    /\ ~IsError(v)
    /\ v.schema = t.schema
    /\ v.name = t.name
    /\ v.path = t.path
    /\ v.doc = t.doc
    /\ t.schema = "number" => v.dtype = t.dtype
    /\ t.schema = "string" => (v.pattern = t.pattern /\ v.format = t.format)
    /\ t.schema = "sequence" => v.items = t.items
    /\ t.schema = "record" =>
          /\ Len(v.fields) = Len(t.fields)
          /\ \A j \in 1..Len(t.fields) :
                /\ v.fields[j].name = t.fields[j].name
                /\ v.fields[j].item = t.fields[j].item

\* the path list inside the dictionary the program holds
PathIn(dv, os) == os[Get(dv.dict, PathKey).pathOf].path

\* C5: from_dict(T.to_dict()) has the schema kind, name, path, doc and
\* schema-specific fields T had before the call, for every variant and
\* every path, the empty path included.
C5_RoundTripSame == [][FromDictCall => SameType(got', objs[1])]_vars

\* C10: from_dict leaves its argument and T alone: T.path, str(T), the key
\* graph([T]) files T under and the path list in the dictionary are after
\* the call what they were before it, for a T with a non-empty path.
C10_FromDictPure ==
    [][(FromDictCall /\ objs[1].path # <<>>) =>
            /\ objs'[1].path = objs[1].path
            /\ Str(objs'[1]) = Str(objs[1])
            /\ KeysOf(Graph(objs', <<1>>)) = KeysOf(Graph(objs, <<1>>))
            /\ PathIn(d', objs') = PathIn(d, objs)]_vars

-----------------------------------------------------------------------------
(* Properties of Namespace *)

RECURSIVE ValueTags(_)
\* the fqn and schema tag of an object from_dict returned and of all below it
ValueTags(v) ==
    {<<Str(v), v.schema>>}
    \cup (IF v.schema = "namespace"
          THEN UNION {ValueTags(v.parts[j].v) : j \in 1..Len(v.parts)}
          ELSE {})

\* p is a prefix of q
IsPrefix(p, q) == Len(q) >= Len(p) /\ SubSeq(q, 1, Len(p)) = p

RECURSIVE Walk(_, _, _)
\* the object reached from the namespace named i by one parts lookup per
\* segment, or 0 when a segment is absent or leads through a type
Walk(os, i, segs) ==
    IF segs = <<>> THEN i
    ELSE IF os[i].schema = "namespace" /\ Has(os[i].parts, Head(segs))
    THEN Walk(os, Get(os[i].parts, Head(segs)), Tail(segs))
    ELSE 0

\* the namespace at the end of the chain of namespaces that subpath names
\* from the namespace named i, or 0 when some segment of it is missing
Chain(os, i, subpath) ==
    LET end == Walk(os, i, Split(Normalize(os[i], subpath)))
    IN  IF end # 0 /\ os[end].schema = "namespace" THEN end ELSE 0

\* C6: from_dict(root.to_dict()) is a tree with the fqns of the original
\* tree and the same schema tag for each, whatever the children are named.
C6_TreeRoundTrip ==
    last.op = "from_dict" =>
        (~IsError(last.ret) /\ ValueTags(last.ret) = last.before)

\* C7: ns.isin(typ) is true exactly when ns.path + [ns.name] is a prefix of
\* typ.path, so also for a type of a sub-namespace of ns.
C7_IsInIsPrefix ==
    last.op = "isin" =>
        (last.ret <=> IsPrefix(objs[last.ns].path \o <<objs[last.ns].name>>,
                               objs[last.typ].path))

\* C8: subnamespace(path) along a chain of namespaces that is already there
\* returns the namespace at its end and changes nothing.
C8_SubnamespaceIdempotent ==
    [][(last'.op = "subnamespace" /\ Chain(objs, last'.ns, last'.key) # 0) =>
          (objs' = objs /\ last'.ret = ObjV(Chain(objs, last'.ns, last'.key)))]_vars

\* C9: a key k that leads from ns to a member m, one parts lookup per
\* segment, is resolved to m both as ns[k] and as ns[fqn(ns) + "." + k].
C9_LookupEitherWay ==
    last.op = "getitem" =>
        LET o == objs[last.ns]
            prefix == Str(o) \o <<Dot>>
            rel == Walk(objs, last.ns, Split(last.key))
            abs == IF StartsWith(last.key, prefix)
                   THEN Walk(objs, last.ns,
                             Split(SubSeq(last.key, Len(prefix) + 1, Len(last.key))))
                   ELSE 0
        IN  /\ rel # 0 => last.ret = ObjV(rel)
            /\ abs # 0 => last.ret = ObjV(abs)

====
